---- MODULE Spec2Model ----
(***************************************************************************)
(* Model of moseq2_extract.helpers.extract.process_extract_batches: the    *)
(* batch loop that loads a range of depth frames, preprocesses them,       *)
(* extracts them, carries the tracking state to the next batch, and writes *)
(* the trimmed result to the h5 file and to the preview movie pipe.        *)
(***************************************************************************)
EXTENDS Integers, Sequences, FiniteSets, TLC

\* ------------------------------------------------------------------ bounds
MaxFrames == 5
MaxChunk == 3
MaxOverlap == 2
MaxFirstFrame == 1
MaxHeight == 3
MaxBground == 4
MaxRaw == 2
MaxDilate == 2
MaxLogLik == 3
MaxSessions == 2
MaxRois == 2
MaxFiles == 3
MaxPrompts == 3

\* ----------------------------------------------------------------- helpers
Min(a, b) == IF a < b THEN a ELSE b

\* s[k:] of Python (k >= 0): empty when k reaches past the end
Drop(s, k) == SubSeq(s, k + 1, Len(s))

\* list(range(a, b))
Range(a, b) == [p \in 1..(IF b > a THEN b - a ELSE 0) |-> a + p - 1]

Image(s) == {s[p] : p \in 1..Len(s)}

None == <<>>
NoPipe == 0

\* ------------------------------------------------------------------ inputs
\* frame batches over [0, n): nominal batches of cs frames, every batch but
\* the first starting ov frames before its nominal start
GenBatches(n, cs, ov) ==
    [b \in 1..((n + cs - 1) \div cs) |->
        Range(IF b = 1 THEN 0 ELSE (b - 1) * cs - ov, Min(b * cs, n))]

\* the config_data keys whose absence is modelled
OptionalKeys == {"min_height", "crop_size", "chunk_overlap", "tracking_model_ll_clip", "fps"}

ConfigKeys == OptionalKeys \cup {"use_tracking_model", "flip_classifier"}

\* config_data as a dict: a key left out is a KeyError at config_data[key]
MakeConfig(ov, track, flip, missing) ==
    [k \in ConfigKeys \ {missing} |->
        CASE k = "chunk_overlap" -> ov
          [] k = "use_tracking_model" -> IF track THEN 1 ELSE 0
          [] k = "flip_classifier" -> IF flip THEN 1 ELSE 0
          [] OTHER -> 1]

VARIABLES
    total_frames,        \* length of the datasets of f
    frame_batches,       \* argument frame_batches
    first_frame_idx,     \* argument first_frame_idx
    config_data,         \* argument config_data
    pc,                  \* position in process_extract_batches / its caller
    i,                   \* loop index of enumerate(frame_batches), 1-based
    frame_range,         \* loop variable frame_range
    raw_frames,          \* local raw_frames
    results,             \* local results
    offset,              \* local offset
    tracking_init,       \* locals tracking_init_mean / tracking_init_cov
    video_pipe,          \* local video_pipe
    retval,              \* value returned to the caller
    error,               \* exception propagating out of the function
    f,                   \* h5 file: stream -> index -> value
    f_closes,            \* times the h5 file was closed
    encoders,            \* encoder processes: closes of each stdin
    reads,               \* history: load_movie_data calls
    seeds,               \* history: tracking seeds given to extract_chunk
    writes,              \* history: assignments to datasets of f
    video_calls,         \* history: write_frames_preview calls
    px,                  \* one pixel of a batch: background, raw depth, roi, thresholds
    px_once,             \* the pixel after lines 45-53
    px_twice,            \* the pixel after lines 45-53 applied to px_once
    px_again,            \* the pixel after lines 47-53 applied to px_once
    px_pc,               \* how often the pixel was preprocessed
    mk,                  \* one pixel of a mask frame: mask value, depth, min_height, ll clip
    mk_out,              \* the mask value after lines 91-94
    mk_pc,               \* whether lines 91-94 ran on the mask pixel
    ss,                  \* extract_found_sessions / run_*_extract: config file, cluster type, sessions, rois
    ss_pc,               \* position in extract_found_sessions / run_*_extract
    ss_runner,           \* which of run_local_extract / run_slurm_extract runs
    ss_i,                \* index into to_extract, 1-based
    ss_r,                \* index into params['bg_roi_index'], 1-based
    ss_attempts,         \* history: extract_command calls
    ss_reported,         \* history: 'could not extract' reports
    ss_error,            \* exception leaving the function
    fr_files,            \* find_roi_command: len(files)
    fr_index,            \* find_roi_command: input_file_index
    fr_last,             \* find_roi_command: what the user typed last
    fr_prompts,          \* find_roi_command: number of prompts so far
    fr_pc,               \* find_roi_command: position
    pg_base,             \* check_progress: base_dir
    pg_exists,           \* check_progress: the progress file exists
    pg_stored,           \* check_progress: the progress file at the call
    pg_file,             \* check_progress: the progress file now
    pg_last,             \* check_progress: what the user answered last
    pg_prompts,          \* check_progress: number of prompts so far
    pg_pc,               \* check_progress: position
    pg_ret               \* check_progress: returned value

vars == <<total_frames, frame_batches, first_frame_idx, config_data, pc, i,
          frame_range, raw_frames, results, offset, tracking_init, video_pipe,
          retval, error, f, f_closes, encoders, reads, seeds, writes, video_calls,
          px, px_once, px_twice, px_again, px_pc, mk, mk_out, mk_pc,
          ss, ss_pc, ss_runner, ss_i, ss_r, ss_attempts, ss_reported, ss_error,
          fr_files, fr_index, fr_last, fr_prompts, fr_pc,
          pg_base, pg_exists, pg_stored, pg_file, pg_last, pg_prompts, pg_pc, pg_ret>>

pixel == <<px, px_once, px_twice, px_again, px_pc>>

batch_main == <<total_frames, frame_batches, first_frame_idx, config_data, pc, i,
                frame_range, raw_frames, results, offset, tracking_init, video_pipe,
                retval, error, f, f_closes, encoders, reads, seeds, writes, video_calls>>

mask == <<mk, mk_out, mk_pc>>

sessions == <<ss, ss_pc, ss_runner, ss_i, ss_r, ss_attempts, ss_reported, ss_error>>

find_roi == <<fr_files, fr_index, fr_last, fr_prompts, fr_pc>>

progress == <<pg_base, pg_exists, pg_stored, pg_file, pg_last, pg_prompts, pg_pc, pg_ret>>

prompts == <<find_roi, progress>>

\* what the batch loop never touches
extra == <<mask, sessions, prompts>>

inputs == <<total_frames, frame_batches, first_frame_idx, config_data, pixel, extra>>

HasKey(k) == k \in DOMAIN config_data
UseTracking == config_data["use_tracking_model"] = 1
UseFlips == config_data["flip_classifier"] = 1

Streams == {"scalars", "frames", "frames_mask", "flips"}
NoValue == [kind |-> "empty", batch |-> 0, pos |-> 0, src |-> 0]
NoResults == [depth_frames |-> <<>>, mask_frames |-> <<>>, scalars |-> <<>>,
              flips |-> <<>>, mean |-> <<>>, cov |-> <<>>]

NoPixel == [bground |-> 0, raw |-> 0, roi |-> 0, min_height |-> 0, max_height |-> 0,
            dilate_iterations |-> 0, frame_dtype |-> "uint8"]

PixelIdle ==
    /\ px = NoPixel
    /\ px_once = 0
    /\ px_twice = 0
    /\ px_again = 0
    /\ px_pc = "idle"

NoMask == [mask |-> 0, depth |-> 0, min_height |-> 0, tracking_model_ll_clip |-> 0]

MaskIdle ==
    /\ mk = NoMask
    /\ mk_out = 0
    /\ mk_pc = "idle"

NoSessions == [entry |-> "none", config_file |-> "none", cluster_type |-> "absent",
               to_extract |-> 0, bg_roi_index |-> <<>>]

SessionsStart ==
    /\ ss_runner = "none"
    /\ ss_i = 1
    /\ ss_r = 1
    /\ ss_attempts = <<>>
    /\ ss_reported = <<>>
    /\ ss_error = "none"

SessionsIdle ==
    /\ ss = NoSessions
    /\ ss_pc = "idle"
    /\ SessionsStart

\* what a user types at a prompt: an integer or some other text
IntToken(v) == [kind |-> "int", v |-> v, text |-> ""]
TextToken(t) == [kind |-> "text", v |-> 0, text |-> t]
NoToken == [kind |-> "none", v |-> 0, text |-> ""]

FindRoiIdle ==
    /\ fr_files = 0
    /\ fr_index = IntToken(-1)
    /\ fr_last = NoToken
    /\ fr_prompts = 0
    /\ fr_pc = "idle"

ProgressIdle ==
    /\ pg_base = <<>>
    /\ pg_exists = FALSE
    /\ pg_stored = <<>>
    /\ pg_file = <<>>
    /\ pg_last = ""
    /\ pg_prompts = 0
    /\ pg_pc = "idle"
    /\ pg_ret = <<>>

PromptsIdle == FindRoiIdle /\ ProgressIdle

ExtraIdle == MaskIdle /\ SessionsIdle /\ PromptsIdle

\* mutant of InitialSeed: the first batch starts from a state left over
InitialSeedStale == [mean |-> NoValue, cov |-> NoValue]

\* lines 40-41: tracking_init_mean = None, tracking_init_cov = None
InitialSeed == [mean |-> None, cov |-> None]

\* the locals at line 39-41, the sinks as the caller hands them over
LoopStart ==
    /\ i = 1
    /\ frame_range = <<>>
    /\ raw_frames = <<>>
    /\ results = NoResults
    /\ offset = 0
    /\ tracking_init = InitialSeed
    /\ video_pipe = NoPipe
    /\ retval = NoPipe
    /\ error = "none"
    /\ f = [s \in Streams |-> [j \in 0..(total_frames - 1) |-> NoValue]]
    /\ f_closes = 0
    /\ encoders = <<>>
    /\ reads = <<>>
    /\ seeds = <<>>
    /\ writes = <<>>
    /\ video_calls = <<>>

Init ==
    /\ PixelIdle
    /\ ExtraIdle
    /\ \E n \in 0..MaxFrames, cs \in 1..MaxChunk, ov \in 0..MaxOverlap,
          track \in BOOLEAN, flip \in BOOLEAN, missing \in OptionalKeys \cup {"none"} :
          /\ ov < cs
          /\ total_frames = n
          /\ frame_batches = GenBatches(n, cs, ov)
          /\ config_data = MakeConfig(ov, track, flip, missing)
    /\ first_frame_idx \in 0..MaxFirstFrame
    /\ pc = "for"
    /\ LoopStart

\* mutant of Raise: the error is recorded and the loop goes on
RaiseSwallowed(e) ==
    /\ pc' = "for"
    /\ error' = e

\* an exception leaves the function: nothing catches it in the loop
Raise(e) ==
    /\ pc' = "raised"
    /\ error' = e

\* mutant of ReadPositions: the frames are read at the unshifted indices
ReadPositionsNoShift(fr) == fr

\* line 44: [f + first_frame_idx for f in frame_range]
ReadPositions(fr) == [p \in 1..Len(fr) |-> fr[p] + first_frame_idx]

\* line 43-44: next batch, load_movie_data
LoadBatch ==
    /\ pc = "for"
    /\ i <= Len(frame_batches)
    /\ frame_range' = frame_batches[i]
    /\ \/ /\ raw_frames' = ReadPositions(frame_batches[i])
          /\ reads' = Append(reads, [batch |-> i, frames |-> raw_frames'])
          /\ pc' = "loaded"
          /\ UNCHANGED error
       \/ /\ Raise("IOError")
          /\ UNCHANGED <<raw_frames, reads>>
    /\ UNCHANGED <<inputs, i, results, offset, tracking_init, video_pipe, retval,
                   f, f_closes, encoders, seeds, writes, video_calls>>

\* lines 45-53: background subtraction, height thresholds, cast, apply_roi
\* (the pixel arithmetic is PreprocessPixel below; here a frame keeps its identity)
Preprocess ==
    /\ pc = "loaded"
    /\ \/ /\ HasKey("min_height")
          /\ pc' = "preprocessed"
          /\ UNCHANGED error
       \/ /\ ~HasKey("min_height")
          /\ Raise("KeyError")
    /\ UNCHANGED <<inputs, i, frame_range, raw_frames, results, offset, tracking_init,
                   video_pipe, retval, f, f_closes, encoders, reads, seeds, writes,
                   video_calls>>

\* what extract_chunk hands back for a batch: one entry per frame in every
\* array, the estimator's parameters only with the tracking model on
ChunkResults(b, frames, track) ==
    LET entry(kind) == [p \in 1..Len(frames) |->
                          [kind |-> kind, batch |-> b, pos |-> p, src |-> frames[p]]]
    IN [depth_frames |-> entry("depth"),
        mask_frames |-> entry("mask"),
        scalars |-> entry("scalar"),
        flips |-> entry("flip"),
        mean |-> IF track THEN entry("mean") ELSE <<>>,
        cov |-> IF track THEN entry("cov") ELSE <<>>]

\* lines 55-81: extract_chunk(raw_frames, ..., tracking_init_mean, tracking_init_cov, ...)
ExtractChunk ==
    /\ pc = "preprocessed"
    /\ \/ /\ HasKey("crop_size")
          /\ results' = ChunkResults(i, raw_frames, UseTracking)
          /\ seeds' = Append(seeds, [batch |-> i, mean |-> tracking_init.mean,
                                     cov |-> tracking_init.cov])
          /\ pc' = "extracted"
          /\ UNCHANGED error
       \/ /\ HasKey("crop_size")
          /\ Raise("ExtractError")
          /\ UNCHANGED <<results, seeds>>
       \/ /\ ~HasKey("crop_size")
          /\ Raise("KeyError")
          /\ UNCHANGED <<results, seeds>>
    /\ UNCHANGED <<inputs, i, frame_range, raw_frames, offset, tracking_init, video_pipe,
                   retval, f, f_closes, encoders, reads, writes, video_calls>>

\* mutant of BatchOffset: no batch drops its overlap
BatchOffsetNone(b) == 0

\* mutant of BatchOffset: one entry too many is dropped
BatchOffsetPlusOne(b) == IF b > 1 THEN config_data["chunk_overlap"] + 1 ELSE 0

\* lines 85-88: the number of leading entries batch b drops before writing
BatchOffset(b) == IF b > 1 THEN config_data["chunk_overlap"] ELSE 0

\* mutant of SeedPosition: the state of the last frame, a[-1]
SeedPositionLast(a) == Len(a)

\* lines 95-96: a[-(chunk_overlap + 1)], 1-based position in a
SeedPosition(a) == Len(a) - (config_data["chunk_overlap"] + 1) + 1

\* mutant of TrackingActive: lines 91-96 run whatever use_tracking_model says
TrackingActiveAlways == TRUE

\* line 90: if config_data['use_tracking_model']
TrackingActive == UseTracking

\* lines 91-94 on the mask frames of a batch: every frame is clipped in place
\* (the arithmetic on one value is ClipMask below)
ClippedFrames(frames) == [p \in 1..Len(frames) |-> [frames[p] EXCEPT !.kind = "mask_clipped"]]

\* lines 85-96: offset, mask clipping, tracking state for the next batch
CarryTracking ==
    /\ pc = "extracted"
    /\ \/ /\ i > 1 => HasKey("chunk_overlap")
          /\ offset' = BatchOffset(i)
          /\ \/ /\ ~TrackingActive
                /\ pc' = "carried"
                /\ UNCHANGED <<results, tracking_init, error>>
             \/ /\ TrackingActive
                /\ HasKey("tracking_model_ll_clip")
                /\ HasKey("chunk_overlap")
                /\ SeedPosition(results.mean) >= 1
                /\ results' = [results EXCEPT !.mask_frames = ClippedFrames(@)]
                /\ tracking_init' = [mean |-> results.mean[SeedPosition(results.mean)],
                                     cov |-> results.cov[SeedPosition(results.cov)]]
                /\ pc' = "carried"
                /\ UNCHANGED error
             \/ /\ TrackingActive
                /\ ~(HasKey("tracking_model_ll_clip") /\ HasKey("chunk_overlap"))
                /\ results' = IF HasKey("tracking_model_ll_clip")
                              THEN [results EXCEPT !.mask_frames = ClippedFrames(@)]
                              ELSE results
                /\ Raise("KeyError")
                /\ UNCHANGED tracking_init
             \/ /\ TrackingActive
                /\ HasKey("tracking_model_ll_clip")
                /\ HasKey("chunk_overlap")
                /\ SeedPosition(results.mean) < 1
                /\ results' = [results EXCEPT !.mask_frames = ClippedFrames(@)]
                /\ Raise("IndexError")
                /\ UNCHANGED tracking_init
       \/ /\ i > 1
          /\ ~HasKey("chunk_overlap")
          /\ Raise("KeyError")
          /\ UNCHANGED <<offset, tracking_init, results>>
    /\ UNCHANGED <<inputs, i, frame_range, raw_frames, video_pipe, retval,
                   f, f_closes, encoders, reads, seeds, writes, video_calls>>

\* the datasets assigned at lines 100-107, in the order of the code
WriteOrder == <<"scalars", "frames", "frames_mask">> \o (IF UseFlips THEN <<"flips">> ELSE <<>>)

\* the result array written to a dataset
ResultOf(stream) ==
    CASE stream = "scalars" -> results.scalars
      [] stream = "frames" -> results.depth_frames
      [] stream = "frames_mask" -> results.mask_frames
      [] stream = "flips" -> results.flips

\* lines 101-107: the slice of a result array that is written
Trimmed(a) == Drop(a, offset)

\* dataset[idx] = data of h5py: the selection and the data must agree in length
\* and the selection must lie inside the dataset
AssignOk(idx, data) ==
    /\ Len(idx) = Len(data)
    /\ \A p \in 1..Len(idx) : idx[p] \in 0..(total_frames - 1)

Assign(dataset, idx, data) ==
    [j \in DOMAIN dataset |->
        IF \E p \in 1..Len(idx) : idx[p] = j
        THEN data[CHOOSE p \in 1..Len(idx) : idx[p] = j]
        ELSE dataset[j]]

\* f after the first k assignments of WriteOrder
RECURSIVE AfterWrites(_, _)
AfterWrites(k, idx) ==
    IF k = 0 THEN f
    ELSE LET g == AfterWrites(k - 1, idx)
             s == WriteOrder[k]
         IN [g EXCEPT ![s] = Assign(g[s], idx, Trimmed(ResultOf(s)))]

WriteLog(k, idx) ==
    [n \in 1..k |-> [batch |-> i, stream |-> WriteOrder[n], idx |-> idx,
                     data |-> Trimmed(ResultOf(WriteOrder[n]))]]

\* lines 98-107: trim frame_range, assign the trimmed arrays to the datasets
WriteStructured ==
    /\ pc = "carried"
    /\ frame_range' = Drop(frame_range, offset)
    /\ \/ /\ \A n \in 1..Len(WriteOrder) : AssignOk(frame_range', Trimmed(ResultOf(WriteOrder[n])))
          /\ f' = AfterWrites(Len(WriteOrder), frame_range')
          /\ writes' = writes \o WriteLog(Len(WriteOrder), frame_range')
          /\ pc' = "stored"
          /\ UNCHANGED error
       \/ \E k \in 0..(Len(WriteOrder) - 1) :
          /\ \A n \in 1..k : AssignOk(frame_range', Trimmed(ResultOf(WriteOrder[n])))
          /\ f' = AfterWrites(k, frame_range')
          /\ writes' = writes \o WriteLog(k, frame_range')
          /\ Raise("SinkError")
    /\ UNCHANGED <<inputs, i, raw_frames, results, offset, tracking_init, video_pipe,
                   retval, f_closes, encoders, reads, seeds, video_calls>>

\* lines 109-114: output_movie, one frame per entry of raw_frames[offset:]
OutputMovie ==
    [p \in 1..Len(Trimmed(raw_frames)) |->
        [depth |-> Trimmed(results.depth_frames)[p], raw |-> Trimmed(raw_frames)[p]]]

\* mutant of FrameLabels: the labels of the whole batch, overlap included
FrameLabelsWholeBatch(fr) ==
    [p \in 1..Len(frame_batches[i]) |-> frame_batches[i][p] + first_frame_idx]

\* line 119: frame_range=[f + first_frame_idx for f in frame_range]
FrameLabels(fr) == [p \in 1..Len(fr) |-> fr[p] + first_frame_idx]

\* mutant of PipeArgument: every call starts without a pipe
PipeArgumentNone == NoPipe

\* the pipe argument of the call at lines 116-120
PipeArgument == video_pipe

\* write_frames_preview: without a pipe an encoder process is started; the
\* frames go to the pipe, which is closed only on close_pipe, and is returned
PreviewHandle(pipe) == IF pipe = NoPipe THEN Len(encoders) + 1 ELSE pipe

PreviewEncoders(pipe, close_pipe) ==
    LET started == IF pipe = NoPipe THEN Append(encoders, 0) ELSE encoders
        h == PreviewHandle(pipe)
    IN IF close_pipe THEN [started EXCEPT ![h] = @ + 1] ELSE started

\* lines 109-120: the preview movie of the batch goes to the video pipe
WriteVideo ==
    /\ pc = "stored"
    /\ \/ /\ HasKey("fps")
          /\ encoders' = PreviewEncoders(PipeArgument, FALSE)
          /\ video_pipe' = PreviewHandle(PipeArgument)
          /\ video_calls' = Append(video_calls,
                [batch |-> i, pipe |-> PipeArgument, close_pipe |-> FALSE,
                 ret |-> PreviewHandle(PipeArgument), movie |-> OutputMovie,
                 frame_range |-> FrameLabels(frame_range)])
          /\ i' = i + 1
          /\ pc' = "for"
          /\ UNCHANGED error
       \/ /\ HasKey("fps")
          /\ \E started \in BOOLEAN :
                encoders' = IF started THEN PreviewEncoders(PipeArgument, FALSE) ELSE encoders
          /\ Raise("VideoError")
          /\ UNCHANGED <<video_pipe, video_calls, i>>
       \/ /\ ~HasKey("fps")
          /\ Raise("KeyError")
          /\ UNCHANGED <<encoders, video_pipe, video_calls, i>>
    /\ UNCHANGED <<inputs, frame_range, raw_frames, results, offset, tracking_init,
                   retval, f, f_closes, reads, seeds, writes>>

\* line 122: return video_pipe
Return ==
    /\ pc = "for"
    /\ i > Len(frame_batches)
    /\ retval' = video_pipe
    /\ pc' = "returned"
    /\ UNCHANGED <<inputs, i, frame_range, raw_frames, results, offset, tracking_init,
                   video_pipe, error, f, f_closes, encoders, reads, seeds, writes,
                   video_calls>>

\* the caller: leaves the scope of the h5 file, and closes the pipe it was
\* handed back; after an exception it holds no pipe
CallerExit ==
    /\ pc \in {"returned", "raised"}
    /\ f_closes' = f_closes + 1
    /\ encoders' = IF pc = "returned" /\ retval # NoPipe
                   THEN [encoders EXCEPT ![retval] = @ + 1]
                   ELSE encoders
    /\ pc' = IF pc = "returned" THEN "done" ELSE "failed"
    /\ UNCHANGED <<inputs, i, frame_range, raw_frames, results, offset, tracking_init,
                   video_pipe, retval, error, f, reads, seeds, writes, video_calls>>

Next ==
    \/ LoadBatch
    \/ Preprocess
    \/ ExtractChunk
    \/ CarryTracking
    \/ WriteStructured
    \/ WriteVideo
    \/ Return
    \/ CallerExit

Spec == Init /\ [][Next]_vars

\* ------------------------------------------- the pixel arithmetic of lines 45-53
\* number of values of a frame_dtype
DtypeModulus(dtype) == IF dtype = "uint8" THEN 2 ^ 8 ELSE 2 ^ 16

\* mutant of AsType: the cast is to uint8 whatever frame_dtype says
AsTypeUint8(v, dtype) == v % DtypeModulus("uint8")

\* line 52: astype(frame_dtype) of an integer value
AsType(v, dtype) == v % DtypeModulus(dtype)

\* line 47: raw_frames[raw_frames < min_height] = 0
ZeroLow(v, c) == IF v < c.min_height THEN 0 ELSE v

\* mutant of ClampHigh: values above max_height are zeroed in both modes
ClampHighAlwaysZero(v, c) == IF v > c.max_height THEN 0 ELSE v

\* lines 48-51: values above max_height, by dilate_iterations
ClampHigh(v, c) ==
    IF c.dilate_iterations = 1
    THEN (IF v > c.max_height THEN c.max_height ELSE v)
    ELSE (IF v > c.max_height THEN 0 ELSE v)

\* apply_roi: a pixel outside the roi is zero
ApplyRoi(v, roi) == v * roi

\* lines 47-53 on a background-subtracted value
CleanPixel(v, c) == ApplyRoi(AsType(ClampHigh(ZeroLow(v, c), c), c.frame_dtype), c.roi)

\* lines 45-53 on a raw depth value
PreprocessPixel(raw, c) == CleanPixel(c.bground - raw, c)

HeightChoices == (0..MaxHeight) \cup {DtypeModulus("uint8") + k : k \in (-1)..1}
BgroundChoices == (0..MaxBground) \cup {DtypeModulus("uint8") + k : k \in (-2)..MaxBground}

InitPixel ==
    /\ px \in [bground : BgroundChoices, raw : 0..MaxRaw, roi : 0..1,
               min_height : 0..MaxHeight, max_height : HeightChoices,
               dilate_iterations : 0..MaxDilate, frame_dtype : {"uint8", "uint16"}]
    /\ px_once = 0
    /\ px_twice = 0
    /\ px_again = 0
    /\ px_pc = "input"
    /\ total_frames = 0
    /\ frame_batches = <<>>
    /\ first_frame_idx = 0
    /\ config_data = MakeConfig(0, FALSE, FALSE, "none")
    /\ pc = "idle"
    /\ LoopStart
    /\ ExtraIdle

batch == <<total_frames, frame_batches, first_frame_idx, config_data, pc, i,
           frame_range, raw_frames, results, offset, tracking_init, video_pipe,
           retval, error, f, f_closes, encoders, reads, seeds, writes, video_calls, extra>>

\* lines 45-53 on the pixel
PreprocessFrame ==
    /\ px_pc = "input"
    /\ px_once' = PreprocessPixel(px.raw, px)
    /\ px_pc' = "once"
    /\ UNCHANGED <<batch, px, px_twice, px_again>>

\* the step on its own output: with the background subtraction (px_twice) and
\* without it (px_again)
PreprocessAgain ==
    /\ px_pc = "once"
    /\ px_twice' = PreprocessPixel(px_once, px)
    /\ px_again' = CleanPixel(px_once, px)
    /\ px_pc' = "twice"
    /\ UNCHANGED <<batch, px, px_once>>

NextPixel == PreprocessFrame \/ PreprocessAgain

SpecPixel == InitPixel /\ [][NextPixel]_vars

\* --------------------------------------------- the mask arithmetic of lines 91-94
\* mutant of ClipMask: only the pixels below min_height are set to the clip
ClipMaskLowDepthOnly(m, depth, c) ==
    IF depth < c.min_height THEN c.tracking_model_ll_clip ELSE m

\* line 91-92: mask_frames[depth_frames < min_height] = tracking_model_ll_clip,
\* line 93-94: mask_frames[mask_frames < tracking_model_ll_clip] = tracking_model_ll_clip
ClipMask(m, depth, c) ==
    LET low == IF depth < c.min_height THEN c.tracking_model_ll_clip ELSE m
    IN IF low < c.tracking_model_ll_clip THEN c.tracking_model_ll_clip ELSE low

\* the main variables while another function is looked at
BatchIdle ==
    /\ total_frames = 0
    /\ frame_batches = <<>>
    /\ first_frame_idx = 0
    /\ config_data = MakeConfig(0, FALSE, FALSE, "none")
    /\ pc = "idle"
    /\ LoopStart
    /\ PixelIdle

InitMask ==
    /\ mk \in [mask : (-MaxLogLik)..MaxLogLik, depth : 0..(MaxHeight + 1),
               min_height : 0..MaxHeight,
               tracking_model_ll_clip : (-MaxLogLik)..MaxLogLik]
    /\ mk_out = 0
    /\ mk_pc = "extracted"
    /\ BatchIdle
    /\ SessionsIdle
    /\ PromptsIdle

\* lines 91-94 on the mask pixel
ClipMaskFrames ==
    /\ mk_pc = "extracted"
    /\ mk_out' = ClipMask(mk.mask, mk.depth, mk)
    /\ mk_pc' = "clipped"
    /\ UNCHANGED <<total_frames, frame_batches, first_frame_idx, config_data, pc, i,
                   frame_range, raw_frames, results, offset, tracking_init, video_pipe,
                   retval, error, f, f_closes, encoders, reads, seeds, writes, video_calls,
                   pixel, mk, sessions, prompts>>

NextMask == ClipMaskFrames

SpecMask == InitMask /\ [][NextMask]_vars

\* ------------------------------ extract_found_sessions and run_local_extract
\* extract.py line 125: parameters of run_local_extract, none with a default
RunLocalParameters == 5

\* extract.py line 183: parameters of run_slurm_extract, none with a default
RunSlurmParameters == 7

\* gui.py line 295: arguments of the run_local_extract call
RunLocalArguments == 4

\* gui.py line 292: arguments of the run_slurm_extract call
RunSlurmArguments == 6

\* a call with positional arguments only binds when every parameter gets one
CallBinds(arguments, parameters) == arguments = parameters

\* gui.py line 286: params.get('cluster_type', 'local')
ClusterType == IF ss.cluster_type = "absent" THEN "local" ELSE ss.cluster_type

RoiLists == UNION {[1..n -> 0..(MaxRois - 1)] : n \in 0..MaxRois}

InitSessions ==
    /\ \/ ss \in [entry : {"extract_found_sessions"},
                   config_file : {"none", "missing", "exists"},
                   cluster_type : {"absent", "local", "slurm", "other"},
                   to_extract : 0..MaxSessions, bg_roi_index : RoiLists]
       \/ ss \in [entry : {"run_local_extract", "run_slurm_extract"},
                   config_file : {"exists"}, cluster_type : {"absent"},
                   to_extract : 0..MaxSessions, bg_roi_index : RoiLists]
    /\ ss_pc = "called"
    /\ SessionsStart
    /\ BatchIdle
    /\ MaskIdle
    /\ PromptsIdle

SessionsRaise(e) ==
    /\ ss_pc' = "raised"
    /\ ss_error' = e

\* gui.py lines 278-298: the config file checks and the dispatch on cluster_type
FoundSessionsDispatch ==
    /\ ss_pc = "called"
    /\ ss.entry = "extract_found_sessions"
    /\ \/ /\ ss.config_file = "none"
          /\ SessionsRaise("RuntimeError")
          /\ UNCHANGED ss_runner
       \/ /\ ss.config_file = "missing"
          /\ SessionsRaise("IOError")
          /\ UNCHANGED ss_runner
       \/ /\ ss.config_file = "exists"
          /\ ClusterType \notin {"slurm", "local"}
          /\ SessionsRaise("NotImplementedError")
          /\ UNCHANGED ss_runner
       \/ /\ ss.config_file = "exists"
          /\ ClusterType = "slurm"
          /\ IF CallBinds(RunSlurmArguments, RunSlurmParameters)
             THEN ss_pc' = "loop" /\ ss_runner' = "run_slurm_extract" /\ UNCHANGED ss_error
             ELSE SessionsRaise("TypeError") /\ UNCHANGED ss_runner
       \/ /\ ss.config_file = "exists"
          /\ ClusterType = "local"
          /\ IF CallBinds(RunLocalArguments, RunLocalParameters)
             THEN ss_pc' = "loop" /\ ss_runner' = "run_local_extract" /\ UNCHANGED ss_error
             ELSE SessionsRaise("TypeError") /\ UNCHANGED ss_runner
    /\ UNCHANGED <<batch_main, pixel, mask, prompts, ss, ss_i, ss_r, ss_attempts, ss_reported>>

\* run_local_extract / run_slurm_extract called on their own
RunExtractCalled ==
    /\ ss_pc = "called"
    /\ ss.entry \in {"run_local_extract", "run_slurm_extract"}
    /\ ss_runner' = ss.entry
    /\ ss_pc' = "loop"
    /\ UNCHANGED <<batch_main, pixel, mask, prompts, ss, ss_i, ss_r, ss_attempts, ss_reported, ss_error>>

\* mutant of OnExtractError: the exception of extract_command leaves the loop
OnExtractErrorPropagates == "raised"

\* extract.py lines 175-180 (236-241): try: extract_command(...) except: print(...)
OnExtractError == "caught"

\* the position after the roi at ss_r of session ss_i
NextRoi ==
    IF ss_r < Len(ss.bg_roi_index) THEN <<ss_i, ss_r + 1>> ELSE <<ss_i + 1, 1>>

\* extract.py lines 161-180 (222-241): one roi of one session
ExtractOneRoi ==
    /\ ss_pc = "loop"
    /\ ss_i <= ss.to_extract
    /\ ss_r <= Len(ss.bg_roi_index)
    /\ \E ok \in BOOLEAN :
          /\ ss_attempts' = Append(ss_attempts,
                [session |-> ss_i, roi |-> ss.bg_roi_index[ss_r], ok |-> ok])
          /\ IF ok
             THEN /\ ss_i' = NextRoi[1]
                  /\ ss_r' = NextRoi[2]
                  /\ UNCHANGED <<ss_pc, ss_reported, ss_error>>
             ELSE IF OnExtractError = "caught"
             THEN /\ ss_reported' = Append(ss_reported, ss_i)
                  /\ ss_i' = NextRoi[1]
                  /\ ss_r' = NextRoi[2]
                  /\ UNCHANGED <<ss_pc, ss_error>>
             ELSE /\ SessionsRaise("ExtractError")
                  /\ UNCHANGED <<ss_i, ss_r, ss_reported>>
    /\ UNCHANGED <<batch_main, pixel, mask, prompts, ss, ss_runner>>

\* extract.py line 161: a session whose roi list is used up (or empty)
NextSession ==
    /\ ss_pc = "loop"
    /\ ss_i <= ss.to_extract
    /\ ss_r > Len(ss.bg_roi_index)
    /\ ss_i' = ss_i + 1
    /\ ss_r' = 1
    /\ UNCHANGED <<batch_main, pixel, mask, prompts, ss, ss_pc, ss_runner, ss_attempts, ss_reported,
                   ss_error>>

\* the loop over to_extract is over: back in extract_found_sessions
\* (gui.py line 300, 'Extractions Complete.') or back at the caller
RunExtractReturns ==
    /\ ss_pc = "loop"
    /\ ss_i > ss.to_extract
    /\ ss_pc' = IF ss.entry = "extract_found_sessions" THEN "complete" ELSE "returned"
    /\ UNCHANGED <<batch_main, pixel, mask, prompts, ss, ss_runner, ss_i, ss_r, ss_attempts,
                   ss_reported, ss_error>>

NextSessions ==
    \/ FoundSessionsDispatch
    \/ RunExtractCalled
    \/ ExtractOneRoi
    \/ NextSession
    \/ RunExtractReturns

SpecSessions == InitSessions /\ [][NextSessions]_vars

\* ------------------------------------- find_roi_command with select_session
\* gui.py line 481: 'q' in str(x).lower(), for the values a prompt variable holds
HasQ(x) == x.kind = "text" /\ x.text \in {"q", "Q"}

\* gui.py line 481: the value the quit test looks at is input_file_index
QuitTested(index, typed) == index

RoiTokens == {IntToken(v) : v \in (-2)..(MaxFiles + 1)} \cup {TextToken(t) : t \in {"q", "Q", "x", ""}}

InitFindRoi ==
    /\ fr_files \in 0..MaxFiles
    /\ fr_index = IntToken(-1)
    /\ fr_last = NoToken
    /\ fr_prompts = 0
    /\ fr_pc = "called"
    /\ ProgressIdle
    /\ BatchIdle
    /\ MaskIdle
    /\ SessionsIdle

\* gui.py lines 464-472: the sessions are listed; without any the command returns
ListSessions ==
    /\ fr_pc = "called"
    /\ fr_pc' = IF fr_files = 0 THEN "returned" ELSE "prompt"
    /\ UNCHANGED <<batch_main, pixel, mask, sessions, progress, fr_files, fr_index, fr_last,
                   fr_prompts>>

\* gui.py lines 473-482: one turn of the while loop
PromptSessionIndex ==
    /\ fr_pc = "prompt"
    /\ fr_index.v < 0
    /\ fr_prompts < MaxPrompts
    /\ \E typed \in RoiTokens :
          /\ fr_last' = typed
          /\ fr_prompts' = fr_prompts + 1
          /\ IF typed.kind = "int"
             THEN /\ fr_index' = IF typed.v > fr_files THEN IntToken(-1) ELSE typed
                  /\ UNCHANGED fr_pc
             ELSE /\ fr_pc' = IF HasQ(QuitTested(fr_index, typed)) THEN "returned" ELSE "prompt"
                  /\ UNCHANGED fr_index
    /\ UNCHANGED <<batch_main, pixel, mask, sessions, progress, fr_files>>

\* files[k - 1] of Python for k in 0..len(files), as a 1-based position
Selected(k, n) == IF k = 0 THEN n ELSE k

\* gui.py lines 484-509: the loop is over, the rois of files[input_file_index - 1]
\* are computed
ComputeRoi ==
    /\ fr_pc = "prompt"
    /\ fr_index.v >= 0
    /\ fr_pc' = "computed"
    /\ UNCHANGED <<batch_main, pixel, mask, sessions, progress, fr_files, fr_index, fr_last,
                   fr_prompts>>

NextFindRoi == ListSessions \/ PromptSessionIndex \/ ComputeRoi

SpecFindRoi == InitFindRoi /\ [][NextFindRoi]_vars

\* ------------------------------------------------------------ check_progress
\* a path is the sequence of its components, a value of the file is a path or TBD
TBD == <<"TBD">>

Join(a, b) == a \o <<b>>

ProgressKeys == {"base_dir", "config_file", "index_file", "train_data_dir", "pca_dirname",
                 "scores_filename", "scores_path", "model_path", "crowd_dir", "plot_path"}

\* gui.py line 57: the order in which restore_progress_vars returns the variables
ReturnOrder == <<"config_file", "index_file", "train_data_dir", "pca_dirname",
                 "scores_filename", "model_path", "scores_path", "crowd_dir", "plot_path">>

restore_progress_vars(file) == [n \in 1..Len(ReturnOrder) |-> file[ReturnOrder[n]]]

\* gui.py lines 105-107 and 123-124: the progress file of a new notebook
NewProgressVars(base_dir) ==
    [k \in ProgressKeys |->
        IF k = "base_dir" THEN base_dir
        ELSE IF k = "plot_path" THEN Join(base_dir, "plots/")
        ELSE TBD]

\* str.lower() on the answers of the model, unchanged
LowerIdentity(t) == t

\* str.lower() on the answers of the model
Lower(t) ==
    IF t = "Y" THEN "y"
    ELSE IF t = "N" THEN "n"
    ELSE IF t = "Q" THEN "q"
    ELSE IF t = "YES" THEN "yes"
    ELSE t

Answers == {"Y", "y", "N", "n", "q", "Q", "x", "", "YES"}

BaseDirs == {<<"a">>, <<"b">>}

\* the progress files a notebook leaves behind: every key present, a path or TBD
StoredFiles ==
    {[k \in ProgressKeys |->
        IF k = "base_dir" THEN b
        ELSE IF k \in set THEN Join(b, k)
        ELSE TBD] : b \in BaseDirs, set \in SUBSET {"config_file", "index_file", "model_path", "plot_path"}}

InitProgress ==
    /\ pg_base \in BaseDirs
    /\ pg_exists \in BOOLEAN
    /\ IF pg_exists THEN pg_stored \in StoredFiles ELSE pg_stored = <<>>
    /\ pg_file = pg_stored
    /\ pg_last = ""
    /\ pg_prompts = 0
    /\ pg_pc = "called"
    /\ pg_ret = <<>>
    /\ FindRoiIdle
    /\ BatchIdle
    /\ MaskIdle
    /\ SessionsIdle

\* gui.py lines 76-87: the file exists, it is loaded and listed
LoadProgressFile ==
    /\ pg_pc = "called"
    /\ pg_exists
    /\ pg_pc' = "prompt"
    /\ UNCHANGED <<batch_main, pixel, mask, sessions, find_roi, pg_base, pg_exists, pg_stored,
                   pg_file, pg_last, pg_prompts, pg_ret>>

\* gui.py lines 121-136: no file, a new one is written and its variables returned
CreateProgressFile ==
    /\ pg_pc = "called"
    /\ ~pg_exists
    /\ pg_file' = NewProgressVars(pg_base)
    /\ pg_ret' = restore_progress_vars(pg_file')
    /\ pg_pc' = "returned"
    /\ UNCHANGED <<batch_main, pixel, mask, sessions, find_roi, pg_base, pg_exists, pg_stored,
                   pg_last, pg_prompts>>

\* gui.py line 88: the condition of the while loop
WhileRestore(restore) == restore # "Y" \/ restore # "N" \/ restore # "q"

\* gui.py lines 88-120: one turn of the while loop
PromptRestore ==
    /\ pg_pc = "prompt"
    /\ WhileRestore(pg_last)
    /\ pg_prompts < MaxPrompts
    /\ \E restore \in Answers :
          /\ pg_last' = restore
          /\ pg_prompts' = pg_prompts + 1
          /\ IF Lower(restore) = "y"
             THEN /\ pg_ret' = restore_progress_vars(pg_file)
                  /\ pg_pc' = "returned"
                  /\ UNCHANGED pg_file
             ELSE IF Lower(restore) = "n"
             THEN /\ pg_file' = NewProgressVars(pg_base)
                  /\ pg_ret' = restore_progress_vars(pg_file')
                  /\ pg_pc' = "returned"
             ELSE IF Lower(restore) = "q"
             THEN /\ pg_pc' = "returned"
                  /\ UNCHANGED <<pg_file, pg_ret>>
             ELSE UNCHANGED <<pg_file, pg_ret, pg_pc>>
    /\ UNCHANGED <<batch_main, pixel, mask, sessions, find_roi, pg_base, pg_exists, pg_stored>>

NextProgress == LoadProgressFile \/ CreateProgressFile \/ PromptRestore

SpecProgress == InitProgress /\ [][NextProgress]_vars

\* ------------------------------------------------------------------ claims
\* number of times index j of a dataset was assigned
WriteCount(stream, j) ==
    Cardinality({wp \in {<<w, p>> : w \in 1..Len(writes), p \in 1..MaxFrames + 1} :
                    /\ writes[wp[1]].stream = stream
                    /\ wp[2] <= Len(writes[wp[1]].idx)
                    /\ writes[wp[1]].idx[wp[2]] = j})

Overlap == config_data["chunk_overlap"]

\* C1: once process_extract_batches has returned normally, every index of
\* [0, total_frames) was assigned exactly once in frames, frames_mask and the
\* scalars dataset, and no assignment went outside [0, total_frames).
C1_EveryIndexWrittenOnce ==
    pc = "returned" =>
        /\ \A s \in {"scalars", "frames", "frames_mask"} :
              \A j \in 0..(total_frames - 1) : WriteCount(s, j) = 1
        /\ \A w \in 1..Len(writes) : Image(writes[w].idx) \subseteq 0..(total_frames - 1)

C1_Witness ==
    /\ pc = "returned"
    /\ Len(frame_batches) >= 2
    /\ HasKey("chunk_overlap")
    /\ Overlap >= 1

\* C2: the first batch writes its whole result; every later batch drops exactly
\* chunk_overlap leading entries of its frame range and of every result array
\* (scalars, frames, frames_mask, flips, preview movie); the indices and the
\* data of one write have the same length.
C2_Dropped(b) == IF b = 1 THEN 0 ELSE Overlap

C2_OverlapTrim ==
    /\ \A w \in 1..Len(writes) :
          LET r == writes[w]
              whole == frame_batches[r.batch]
              d == C2_Dropped(r.batch)
          IN /\ Len(r.idx) = Len(r.data)
             /\ Len(r.idx) = Len(whole) - d
             /\ \A p \in 1..Len(r.idx) :
                   /\ r.idx[p] = whole[p + d]
                   /\ r.data[p].pos = p + d
                   /\ r.data[p].batch = r.batch
    /\ \A c \in 1..Len(video_calls) :
          LET r == video_calls[c]
              whole == frame_batches[r.batch]
              d == C2_Dropped(r.batch)
          IN /\ Len(r.frame_range) = Len(r.movie)
             /\ Len(r.movie) = Len(whole) - d
             /\ \A p \in 1..Len(r.movie) :
                   /\ r.frame_range[p] = whole[p + d] + first_frame_idx
                   /\ r.movie[p].depth.pos = p + d
                   /\ r.movie[p].raw = whole[p + d] + first_frame_idx

C2_Witness ==
    /\ Len(video_calls) >= 2
    /\ UseFlips
    /\ Overlap >= 1
    /\ \E w \in 1..Len(writes) : writes[w].batch = 2 /\ writes[w].stream = "flips"

\* C3: with the tracking model on, the seed given to extract_chunk for a batch
\* that follows another is the mean and covariance that the estimator of the
\* batch just before it produced at position -(chunk_overlap + 1) from the end.
C3_SeedFromPreviousBatch ==
    \A k \in 1..Len(seeds) :
        (UseTracking /\ seeds[k].batch > 1) =>
            LET prev == frame_batches[seeds[k].batch - 1]
                at == Len(prev) - Overlap
                state(kind) == [kind |-> kind, batch |-> seeds[k].batch - 1, pos |-> at,
                                src |-> prev[at] + first_frame_idx]
            IN /\ seeds[k].mean = state("mean")
               /\ seeds[k].cov = state("cov")

C3_Witness ==
    /\ UseTracking
    /\ Len(seeds) >= 3
    /\ Overlap >= 1
    /\ Len(frame_batches[2]) > Overlap + 1

\* C4: when the extraction has ended, normally or with an exception, the h5
\* file was closed exactly once and every encoder that was started was closed
\* exactly once.
C4_SinksClosedOnEveryExit ==
    pc \in {"done", "failed"} =>
        /\ f_closes = 1
        /\ \A e \in 1..Len(encoders) : encoders[e] = 1

\* C5: an error raised in a batch leaves the function (it is not swallowed),
\* no later batch is started, every batch started before it was completed in
\* all datasets and in the movie, and what the earlier batches wrote to the
\* datasets is still there.
C5_Completed(b) ==
    /\ \A n \in 1..Len(WriteOrder) :
          \E w \in 1..Len(writes) : writes[w].batch = b /\ writes[w].stream = WriteOrder[n]
    /\ \E c \in 1..Len(video_calls) : video_calls[c].batch = b

C5_ErrorAbortsRun ==
    /\ error # "none" => pc \in {"raised", "failed"}
    /\ pc \in {"raised", "failed"} =>
          /\ error # "none"
          /\ \A r \in 1..Len(reads) : reads[r].batch <= i
    /\ \A r \in 1..Len(reads) :
          /\ reads[r].batch = r
          /\ \A b \in 1..(r - 1) : C5_Completed(b)
    /\ \A w \in 1..Len(writes) :
          writes[w].batch < i =>
              \A p \in 1..Len(writes[w].idx) :
                  f[writes[w].stream][writes[w].idx[p]] = writes[w].data[p]

C5_Witness ==
    /\ pc = "raised"
    /\ error = "SinkError"
    /\ i = 2
    /\ \E w \in 1..Len(writes) : writes[w].batch = 2

\* C6: a missing configuration option fails the extraction before any batch is
\* touched: no frame was read, nothing was written to the h5 file, nothing was
\* given to the video pipe.
C6_ConfigErrorBeforeAnyBatch ==
    error = "KeyError" =>
        /\ reads = <<>>
        /\ writes = <<>>
        /\ video_calls = <<>>

\* frame labels given to the video pipe over the run, in order
RECURSIVE C7_Labels(_)
C7_Labels(n) == IF n = 0 THEN <<>> ELSE C7_Labels(n - 1) \o video_calls[n].frame_range

\* C7: batches are taken one at a time in increasing order, a batch is loaded
\* only when the batch before it was extracted, written and given to the video
\* pipe, and the frame labels given to the video pipe over the run increase
\* strictly.
C7_SequentialIncreasing ==
    /\ \A r \in 1..Len(reads) : reads[r].batch = r
    /\ \A k \in 1..Len(seeds) : seeds[k].batch = k
    /\ \A c \in 1..Len(video_calls) : video_calls[c].batch = c
    /\ \A w \in 1..Len(writes) : \A v \in 1..w : writes[v].batch <= writes[w].batch
    /\ Len(seeds) <= Len(reads)
    /\ Len(video_calls) <= Len(seeds)
    /\ Len(reads) <= Len(video_calls) + 1
    /\ \A w \in 1..Len(writes) : writes[w].batch = Len(seeds)
                                    \/ writes[w].batch <= Len(video_calls)
    /\ \A c \in 1..Len(video_calls) : C5_Completed(c)
    /\ LET all == C7_Labels(Len(video_calls))
       IN \A p \in 1..(Len(all) - 1) : all[p] < all[p + 1]

C7_Witness ==
    /\ Len(video_calls) >= 2
    /\ Overlap >= 1
    /\ pc = "loaded"

C8_WitnessNoBatches ==
    /\ pc = "returned"
    /\ video_calls = <<>>
    /\ retval = NoPipe

\* the value a pixel has before the thresholds
C9_V == px.bground - px.raw

C9_Fits(v) == 0 <= v /\ v < DtypeModulus(px.frame_dtype)

\* C9 as stated: v < min_height gives 0, v > max_height gives max_height with
\* dilate_iterations = 1 and 0 otherwise, other values are unchanged, a pixel
\* outside the roi is 0.
C9_AsStated ==
    px_pc # "input" =>
        px_once = IF px.roi = 0 THEN 0
                  ELSE IF C9_V < px.min_height THEN 0
                  ELSE IF C9_V > px.max_height
                       THEN (IF px.dilate_iterations = 1 THEN px.max_height ELSE 0)
                  ELSE C9_V

\* C9 amended: the same for non-negative thresholds, where "becomes max_height"
\* and "unchanged" hold for the values that frame_dtype can hold.
C9_ThresholdsWithinDtype ==
    px_pc # "input" =>
        /\ px.roi = 0 => px_once = 0
        /\ (px.roi = 1 /\ C9_V < px.min_height) => px_once = 0
        /\ (px.roi = 1 /\ C9_V >= px.min_height /\ C9_V > px.max_height) =>
              /\ (px.dilate_iterations = 1 /\ C9_Fits(px.max_height)) => px_once = px.max_height
              /\ px.dilate_iterations # 1 => px_once = 0
        /\ (px.roi = 1 /\ C9_V >= px.min_height /\ C9_V <= px.max_height /\ C9_Fits(C9_V)) =>
              px_once = C9_V

C9_Witness ==
    /\ px_pc = "once"
    /\ px.roi = 1
    /\ px.dilate_iterations = 1
    /\ C9_V > px.max_height
    /\ px.max_height > px.min_height
    /\ px.min_height > 0
    /\ px_once = px.max_height

\* C10 as stated: the step applied to its own output, for a frame with values
\* in [min_height, max_height] inside the roi, gives the output again.
C10_AsStated ==
    (/\ px_pc = "twice"
     /\ px.roi = 1
     /\ px.raw >= px.min_height
     /\ px.raw <= px.max_height) => px_twice = px_once

\* C10 amended: for a background-subtracted value in [min_height, max_height]
\* inside the roi, with max_height a value of frame_dtype, the step gives that
\* value, and the thresholds, cast and roi mask applied to the output again
\* (without a second background subtraction) give the same output.
C10_IdempotentAfterSubtraction ==
    (/\ px_pc = "twice"
     /\ px.roi = 1
     /\ C9_V >= px.min_height
     /\ C9_V <= px.max_height
     /\ C9_Fits(px.max_height)) =>
        /\ px_once = C9_V
        /\ px_again = px_once

C10_Witness ==
    /\ px_pc = "twice"
    /\ px.roi = 1
    /\ C9_V > px.min_height
    /\ C9_V < px.max_height
    /\ px.min_height > 0
    /\ C9_Fits(px.max_height)
    /\ px_again = C9_V
    /\ px_twice # px_once

\* C11: with the tracking model on, a mask value that goes to frames_mask is at
\* least tracking_model_ll_clip: it is exactly the clip where the depth is
\* below min_height and where the raw mask value is below the clip, and it is
\* the raw mask value everywhere else.
C11_MaskFloor ==
    mk_pc # "extracted" =>
        /\ mk_out >= mk.tracking_model_ll_clip
        /\ mk.depth < mk.min_height => mk_out = mk.tracking_model_ll_clip
        /\ mk.mask < mk.tracking_model_ll_clip => mk_out = mk.tracking_model_ll_clip
        /\ (mk.mask >= mk.tracking_model_ll_clip /\ mk.depth >= mk.min_height) => mk_out = mk.mask

C11_Witness ==
    /\ mk_pc = "clipped"
    /\ mk.depth >= mk.min_height
    /\ mk.min_height > 0
    /\ mk.mask < mk.tracking_model_ll_clip
    /\ mk.tracking_model_ll_clip < 0
    /\ mk_out = mk.tracking_model_ll_clip

\* C12: the first batch of a run gets no tracking seed; with the tracking
\* model off no batch gets one, the carried state stays undefined, and the mask
\* frames reach frames_mask as extract_chunk returned them.
C12_ColdStartAndSkip ==
    /\ \A k \in 1..Len(seeds) :
          (seeds[k].batch = 1 \/ ~UseTracking) =>
              /\ seeds[k].mean = None
              /\ seeds[k].cov = None
    /\ ~UseTracking =>
          /\ tracking_init.mean = None
          /\ tracking_init.cov = None
          /\ \A w \in 1..Len(writes) :
                writes[w].stream = "frames_mask" =>
                    \A p \in 1..Len(writes[w].data) :
                        writes[w].data[p] =
                            [kind |-> "mask", batch |-> writes[w].batch,
                             pos |-> p + C2_Dropped(writes[w].batch),
                             src |-> writes[w].idx[p] + first_frame_idx]

C12_Witness ==
    /\ ~UseTracking
    /\ Len(seeds) >= 3
    /\ pc = "returned"
    /\ \E w \in 1..Len(writes) : writes[w].stream = "frames_mask" /\ writes[w].batch = 3

C12_WitnessTracking ==
    /\ UseTracking
    /\ Len(seeds) >= 2
    /\ seeds[1].mean = None
    /\ seeds[2].mean # None
    /\ \E w \in 1..Len(writes) :
          /\ writes[w].stream = "frames_mask"
          /\ Len(writes[w].data) > 0
          /\ writes[w].data[1].kind = "mask_clipped"

ConfigComplete == OptionalKeys \subseteq DOMAIN config_data

\* C13: with the tracking model off and every option present, no batch raises
\* on its own, whatever the length of the last batch: no KeyError or
\* IndexError, every dataset assignment fits, and a normal return has
\* processed every batch.
C13_RemainderBatchRuns ==
    (~UseTracking /\ ConfigComplete) =>
        /\ error \notin {"KeyError", "IndexError"}
        /\ pc = "carried" =>
              \A n \in 1..Len(WriteOrder) :
                  AssignOk(Drop(frame_range, offset), Trimmed(ResultOf(WriteOrder[n])))
        /\ pc = "returned" => \A b \in 1..Len(frame_batches) : C5_Completed(b)

C13_Witness ==
    /\ pc = "returned"
    /\ ~UseTracking
    /\ ConfigComplete
    /\ Len(frame_batches) >= 2
    /\ Len(frame_batches[Len(frame_batches)]) < Len(frame_batches[1])
    /\ Len(video_calls) = Len(frame_batches)

C13_WitnessOnlyBatchWithinOverlap ==
    /\ pc = "returned"
    /\ ~UseTracking
    /\ ConfigComplete
    /\ Len(frame_batches) = 1
    /\ Len(frame_batches[1]) <= Overlap
    /\ Len(video_calls) = 1

\* C14: in every batch both sinks get the same frames: a value written at
\* index j of a dataset comes from the frame read at j + first_frame_idx, the
\* movie of the batch has one frame per written index, and its frame at that
\* place is that frame, labelled j + first_frame_idx.
C14_SinksAgree ==
    /\ \A w \in 1..Len(writes) :
          LET r == writes[w]
              d == C2_Dropped(r.batch)
          IN \A p \in 1..Len(r.idx) :
                /\ r.data[p].src = r.idx[p] + first_frame_idx
                /\ reads[r.batch].frames[p + d] = r.idx[p] + first_frame_idx
    /\ \A c \in 1..Len(video_calls) :
          \A w \in 1..Len(writes) :
              writes[w].batch = video_calls[c].batch =>
                  /\ Len(video_calls[c].movie) = Len(writes[w].idx)
                  /\ \A p \in 1..Len(writes[w].idx) :
                        /\ video_calls[c].frame_range[p] = writes[w].idx[p] + first_frame_idx
                        /\ video_calls[c].movie[p].raw = writes[w].idx[p] + first_frame_idx
                        /\ writes[w].stream = "frames" =>
                              video_calls[c].movie[p].depth = writes[w].data[p]

C14_Witness ==
    /\ Len(video_calls) >= 2
    /\ first_frame_idx > 0
    /\ Overlap >= 1
    /\ Len(video_calls[2].movie) >= 1

\* the (session, roi) pair of the k-th extract_command call of a complete run
C15_Pair(k) ==
    LET rois == Len(ss.bg_roi_index)
    IN [session |-> ((k - 1) \div rois) + 1, roi |-> ss.bg_roi_index[((k - 1) % rois) + 1]]

C15_Failed == {k \in 1..Len(ss_attempts) : ~ss_attempts[k].ok}

\* C15: run_local_extract calls extract_command once for every session and
\* roi index, in list order; a call that raises is reported and the next call
\* still happens; no failed extraction makes run_local_extract raise.
C15_EveryPairAttempted ==
    ss_runner = "run_local_extract" =>
        /\ ss_error = "none"
        /\ ss_pc # "raised"
        /\ \A k \in 1..Len(ss_attempts) :
              /\ ss_attempts[k].session = C15_Pair(k).session
              /\ ss_attempts[k].roi = C15_Pair(k).roi
        /\ Len(ss_reported) = Cardinality(C15_Failed)
        /\ \A k \in C15_Failed :
              ss_reported[Cardinality({j \in C15_Failed : j <= k})] = ss_attempts[k].session
        /\ ss_pc = "returned" => Len(ss_attempts) = ss.to_extract * Len(ss.bg_roi_index)

C15_Witness ==
    /\ ss_runner = "run_local_extract"
    /\ ss_pc = "returned"
    /\ ss.to_extract = 2
    /\ Len(ss.bg_roi_index) = 2
    /\ ~ss_attempts[1].ok
    /\ ss_attempts[2].ok
    /\ ~ss_attempts[3].ok
    /\ Len(ss_attempts) = 4

\* C16: extract_found_sessions with an existing config file runs
\* run_local_extract for cluster_type 'local' or absent and run_slurm_extract
\* for 'slurm' and then reaches 'Extractions Complete.'; another cluster_type
\* raises NotImplementedError; without the config file it raises before any
\* extraction is attempted.
C16_DispatchOnClusterType ==
    (ss.entry = "extract_found_sessions" /\ ss_pc \in {"complete", "raised"}) =>
        /\ ss.config_file # "exists" =>
              /\ ss_pc = "raised"
              /\ ss_attempts = <<>>
        /\ (ss.config_file = "exists" /\ ss.cluster_type \in {"local", "absent"}) =>
              /\ ss_pc = "complete"
              /\ ss_runner = "run_local_extract"
        /\ (ss.config_file = "exists" /\ ss.cluster_type = "slurm") =>
              /\ ss_pc = "complete"
              /\ ss_runner = "run_slurm_extract"
        /\ (ss.config_file = "exists" /\ ss.cluster_type = "other") =>
              /\ ss_pc = "raised"
              /\ ss_error = "NotImplementedError"

\* C17: in find_roi_command with select_session, Q at the prompt ends the
\* command without any roi computed, another text that is no integer leads to
\* the prompt again, and the loop only ends with an index that selects one of
\* the listed sessions.
C17_QuitOrSelect ==
    /\ (fr_last.kind = "text" /\ fr_last.text \in {"q", "Q"}) => fr_pc = "returned"
    /\ (fr_last.kind = "text" /\ fr_last.text \notin {"q", "Q"}) => fr_pc = "prompt"
    /\ fr_pc = "computed" => Selected(fr_index.v, fr_files) \in 1..fr_files

C18_FileReset ==
    /\ pg_file["base_dir"] = pg_base
    /\ pg_file["plot_path"] = pg_base \o <<"plots/">>
    /\ \A k \in ProgressKeys \ {"base_dir", "plot_path"} : pg_file[k] = <<"TBD">>

C18_Returned(k) == pg_ret[CHOOSE n \in 1..Len(ReturnOrder) : ReturnOrder[n] = k]

\* C18: with an existing progress file, check_progress returns only on an answer
\* Y, N or q in either case: Y returns the stored variables and keeps the file,
\* N resets the file to TBD (plot_path base_dir/plots/) and returns the reset
\* variables, q returns nothing and keeps the file; any other answer changes
\* nothing and leaves the function prompting.
C18_RestoreOverwriteOrQuit ==
    (pg_exists /\ pg_pc \in {"prompt", "returned"}) =>
        /\ pg_pc = "returned" => pg_last \in {"Y", "y", "N", "n", "q", "Q"}
        /\ pg_last \in {"Y", "y"} =>
              /\ pg_pc = "returned"
              /\ pg_file = pg_stored
              /\ Len(pg_ret) = 9
              /\ \A k \in ProgressKeys \ {"base_dir"} : C18_Returned(k) = pg_stored[k]
        /\ pg_last \in {"N", "n"} =>
              /\ pg_pc = "returned"
              /\ C18_FileReset
              /\ Len(pg_ret) = 9
              /\ \A k \in ProgressKeys \ {"base_dir"} : C18_Returned(k) = pg_file[k]
        /\ pg_last \in {"q", "Q"} =>
              /\ pg_pc = "returned"
              /\ pg_file = pg_stored
              /\ pg_ret = <<>>
        /\ pg_last \notin {"Y", "y", "N", "n", "q", "Q"} =>
              /\ pg_pc = "prompt"
              /\ pg_file = pg_stored
              /\ pg_ret = <<>>

\* an N after another answer, on a file that had variables set
C18_Witness ==
    /\ pg_exists
    /\ pg_pc = "returned"
    /\ pg_last = "N"
    /\ pg_prompts >= 2
    /\ pg_file # pg_stored

\* a Y after another answer, on a file that had variables set
C18_WitnessRestore ==
    /\ pg_exists
    /\ pg_pc = "returned"
    /\ pg_last = "y"
    /\ pg_prompts >= 2
    /\ pg_ret[1] # <<"TBD">>
====
